---- MODULE Spec2Model ----
(***************************************************************************)
(* A model of the console-subscriber Aggregator                            *)
(* (console-subscriber/src/aggregator/mod.rs): the event loop `run`, the   *)
(* state updater `update_state`, the publisher `publish`, the retention GC *)
(* `drop_closed_tasks`, the subscription commands, `Flush::trigger`,       *)
(* `Watch::update` and `TaskIds`.                                          *)
(*                                                                         *)
(* The aggregator is one process whose position is `pc`: it waits at the   *)
(* three-way select ("select"), then drains the event channel without      *)
(* awaiting ("drain"), then publishes and garbage-collects and goes back   *)
(* to the select; or it has returned ("done") or panicked ("panicked").    *)
(* Producers, RPC clients, the sinks' consumers and the wall clock are the *)
(* environment and interleave with it at every position.                   *)
(***************************************************************************)
EXTENDS Integers, Sequences, FiniteSets, TLC

\* ------------------------------------------------------------ bounds
MaxTime == 2
MaxSpans == 2
MaxTaskId == 2
MaxEvents == 2
MaxCmds == 1
MaxSinks == 2
MaxDetailSinks == 1
MaxMeta == 1
MaxTrig == 2
\* the narrow environment of the specifications that vary something else
FewSpans == 1
FewEvents == 1
FewSinks == 1
\* the largest counts of polls, of nested polls and of waker operations the
\* producers build up in one stats entry
MaxPolls == 2
MaxDepth == 2
MaxWakes == 2
\* TestState handles (the first and its clones) and broadcasts sent
MaxHandles == 2
MaxSent == 5

\* `retention: builder.retention`, in clock units
retention == 1
\* every sink is a bounded mpsc channel of this capacity
SinkCap == 1

None == -1
Times == 0..MaxTime
SpanIds == 1..MaxSpans
SinkIds == 1..MaxSinks
DetailSinkIds == (MaxSinks + 1)..(MaxSinks + MaxDetailSinks)
TaskIdSet == 0..(MaxTaskId + MaxEvents - 1)
MetaIds == 1..MaxMeta
WakeOps == {"Wake", "WakeByRef", "Clone", "Drop"}
\* u64::MAX. The checker's integers are 32-bit, so the top value of a u64 is
\* modelled by the largest of them; it is only ever reached by wrapping.
U64Max == 2147483647

\* `enum TestStep`, in the order its derived PartialOrd compares
Start == 0
ServerStarted == 1
ClientConnected == 2
TestFinished == 3
UpdatesRecorded == 4
TestSteps == Start..UpdatesRecorded
\* `broadcast::channel(1)`
Capacity == 1
Handles == 1..MaxHandles

VARIABLES
  pc,               \* position of Aggregator::run
  should_send,      \* the value of the select! of this iteration (a local of
                    \* the loop body: FALSE between iterations)
  source,           \* the select! branch serviced in this iteration
  temporality,
  watchers,         \* ShrinkVec<Watch<TaskUpdate>>: a sequence of sinks
  details_watchers, \* ShrinkMap<TaskId, Vec<Watch<TaskDetails>>>
  all_metadata,
  new_metadata,
  tasks,            \* TaskData<Task>: TaskId -> [val, dirty]
  stats,            \* TaskData<Stats>: TaskId -> [val, dirty]
  task_ids,         \* TaskIds: [next, id_mappings]
  events,           \* the event channel, and whether its senders are gone
  events_closed,
  rpcs,             \* the command channel, and whether its senders are gone
  rpcs_closed,
  triggered,        \* Flush::triggered
  should_flush,     \* Flush::should_flush: the Notify holds a permit
  notifying,        \* a producer won the CAS and has not yet called notify_one
  sinks,            \* the subscribers' channels: sink -> [st, len]
  now,              \* the wall clock
  last_update,      \* the last TaskUpdate built, and the sinks that accepted it
  last_details,     \* the TaskDetails sent by the last publish: <<id, sink>> pairs
  detail_reply,     \* what the last WatchTaskDetail requester observed
  pending,          \* events in the channel at the select not yet applied
  late,             \* tasks spawned and closed while no watcher was registered
  overdue,          \* tasks whose retention had expired at the last tick's GC
  carried,          \* a trigger from before the last tick is still to be serviced
  trigs,            \* Flush::trigger calls since the last publish tick
  wins,             \* ... of which won the CAS
  flushes,          \* flush notifications serviced since the last publish tick
  step,             \* TestState.step of every TestState handle
  receiver,         \* TestState.receiver: how many broadcasts the handle's
                    \* receiver has gone past
  handle,           \* "unused", "live", or "panicked" in advance_to_step
  broadcast,        \* every TestStep sent on the broadcast channel, oldest
                    \* first; the channel holds the last Capacity of them
  returned          \* the last call on a TestState and what it returned

aggVars == <<pc, should_send, source, temporality, watchers, details_watchers,
             all_metadata, new_metadata, tasks, stats, task_ids>>
chanVars == <<events, events_closed, rpcs, rpcs_closed>>
flushVars == <<triggered, should_flush, notifying>>
obsVars == <<last_update, last_details, detail_reply, pending, late, overdue>>
cntVars == <<trigs, wins, flushes, carried>>
testVars == <<step, receiver, handle, broadcast, returned>>
runVars == <<aggVars, chanVars, flushVars, sinks, now, obsVars, cntVars>>
vars == <<runVars, testVars>>

\* ------------------------------------------------------------ helpers
Range(s) == {s[i] : i \in DOMAIN s}

EmptyMap == [x \in {} |-> 0]

MapRemove(m, ks) == [k \in DOMAIN m \ ks |-> m[k]]

MapPut(m, k, v) == [x \in DOMAIN m \cup {k} |-> IF x = k THEN v ELSE m[x]]

\* u64 arithmetic as a build without overflow checks does it
wrapping_add(x) == IF x = U64Max THEN 0 ELSE x + 1

wrapping_sub(x) == IF x = 0 THEN U64Max ELSE x - 1

\* ------------------------------------------------------------ Stats, Task
DefaultStats ==
  [polls |-> 0, current_polls |-> 0, created_at |-> None, first_poll |-> None,
   last_poll_started |-> None, last_poll_ended |-> None, busy_time |-> 0,
   closed_at |-> None, wakes |-> 0, waker_clones |-> 0, waker_drops |-> 0,
   last_wake |-> None, poll_times_histogram |-> <<>>]

total_time(s) ==
  IF s.closed_at # None /\ s.created_at # None /\ s.closed_at >= s.created_at
  THEN s.closed_at - s.created_at
  ELSE None

Stats_to_proto(s) ==
  [polls |-> s.polls, created_at |-> s.created_at, first_poll |-> s.first_poll,
   last_poll_started |-> s.last_poll_started,
   last_poll_ended |-> s.last_poll_ended, busy_time |-> s.busy_time,
   total_time |-> total_time(s), wakes |-> s.wakes,
   waker_clones |-> s.waker_clones, waker_drops |-> s.waker_drops,
   last_wake |-> s.last_wake]

Task_to_proto(id, t) == [id |-> id, kind |-> "Spawn", metadata |-> t.metadata]

\* ------------------------------------------------------------ TaskData
TD_insert(m, id, v) == MapPut(m, id, [val |-> v, dirty |-> TRUE])

TD_contains(m, id) == id \in DOMAIN m

\* `update_or_default(id)`: the entry, created with the default value if absent
TD_entry_or_default(m, id) == IF id \in DOMAIN m THEN m[id].val ELSE DefaultStats

\* dropping the `Updating` handle of a mutated entry marks it dirty
TD_store(m, id, v) == MapPut(m, id, [val |-> v, dirty |-> TRUE])

TD_all(m) == DOMAIN m

TD_dirty(m) == {id \in DOMAIN m : m[id].dirty}

\* the map after `since_last_update()` has been consumed
TD_cleared(m) == [id \in DOMAIN m |-> [val |-> m[id].val, dirty |-> FALSE]]

TD_retain(m, keep) == [id \in DOMAIN m \cap keep |-> m[id]]

\* ------------------------------------------------------------ TaskIds
Mapped(ids, span) == span \in DOMAIN ids.id_mappings

id_for_id(ids, span) ==
  IF Mapped(ids, span) THEN ids.id_mappings[span] ELSE ids.next

\* id_for without line 602: the counter is left where it was
id_for_next_kept(ids, span) ==
  IF Mapped(ids, span)
  THEN ids
  ELSE [next |-> ids.next,
        id_mappings |-> MapPut(ids.id_mappings, span, ids.next)]

id_for(ids, span) ==
  IF Mapped(ids, span)
  THEN ids
  ELSE [next |-> wrapping_add(ids.next),
        id_mappings |-> MapPut(ids.id_mappings, span, ids.next)]

retain_only(ids, live) ==
  [next |-> ids.next,
   id_mappings |-> [s \in {x \in DOMAIN ids.id_mappings :
                             ids.id_mappings[x] \in live}
                    |-> ids.id_mappings[s]]]

\* ------------------------------------------------------------ update_state
\* `elapsed.as_nanos().try_into().unwrap_or(u64::MAX)`; the clock unit is 1 ns
clamp_nanos(elapsed) == IF elapsed > U64Max THEN U64Max ELSE elapsed

Data(t, s, i, am, nm, p) ==
  [tasks |-> t, stats |-> s, task_ids |-> i, all_metadata |-> am,
   new_metadata |-> nm, panicked |-> p]

on_metadata(d, ev) ==
  Data(d.tasks, d.stats, d.task_ids, Append(d.all_metadata, ev.id),
       Append(d.new_metadata, ev.id), FALSE)

on_spawn(d, ev) ==
  LET task_id == id_for_id(d.task_ids, ev.id) IN
  Data(TD_insert(d.tasks, task_id, [metadata |-> ev.id]),
       TD_insert(d.stats, task_id,
                 [DefaultStats EXCEPT !.polls = 0, !.created_at = ev.at]),
       id_for(d.task_ids, ev.id), d.all_metadata, d.new_metadata, FALSE)

on_enter(d, ev) ==
  LET task_id == id_for_id(d.task_ids, ev.id)
      st == TD_entry_or_default(d.stats, task_id)
      st1 == IF st.current_polls = 0
             THEN [st EXCEPT !.last_poll_started = ev.at,
                             !.first_poll = IF st.first_poll = None
                                            THEN ev.at ELSE st.first_poll,
                             !.polls = wrapping_add(st.polls)]
             ELSE st
      st2 == [st1 EXCEPT !.current_polls = wrapping_add(st1.current_polls)]
  IN Data(d.tasks, TD_store(d.stats, task_id, st2), id_for(d.task_ids, ev.id),
          d.all_metadata, d.new_metadata, FALSE)

\* `wraps`: the build has no overflow checks, so `current_polls -= 1` at 0
\* wraps to u64::MAX; with overflow checks it panics.
on_exit(d, ev, wraps) ==
  LET task_id == id_for_id(d.task_ids, ev.id)
      st == TD_entry_or_default(d.stats, task_id)
      underflow == st.current_polls = 0
      st1 == [st EXCEPT !.current_polls = wrapping_sub(st.current_polls)]
      ends == st1.current_polls = 0 /\ st1.last_poll_started # None
      skewed == ends /\ ev.at < st1.last_poll_started
      elapsed == ev.at - st1.last_poll_started
      st2 == IF ends /\ ~skewed
             THEN [st1 EXCEPT !.last_poll_ended = ev.at,
                              !.busy_time = st1.busy_time + elapsed,
                              !.poll_times_histogram =
                                 Append(st1.poll_times_histogram,
                                        clamp_nanos(elapsed))]
             ELSE st1
  IN Data(d.tasks, TD_store(d.stats, task_id, st2), id_for(d.task_ids, ev.id),
          d.all_metadata, d.new_metadata, (underflow /\ ~wraps) \/ skewed)

on_close(d, ev) ==
  LET task_id == id_for_id(d.task_ids, ev.id)
      st == TD_entry_or_default(d.stats, task_id)
  IN Data(d.tasks, TD_store(d.stats, task_id, [st EXCEPT !.closed_at = ev.at]),
          id_for(d.task_ids, ev.id), d.all_metadata, d.new_metadata, FALSE)

on_waker_wake_keeps(d, ev) ==
  LET task_id == id_for_id(d.task_ids, ev.id)
      ids == id_for(d.task_ids, ev.id)
  IN IF ~TD_contains(d.stats, task_id)
     THEN Data(d.tasks, d.stats, ids, d.all_metadata, d.new_metadata, FALSE)
     ELSE
       LET st == d.stats[task_id].val
           st1 == CASE ev.op \in {"Wake", "WakeByRef"} ->
                         [st EXCEPT !.wakes = st.wakes + 1, !.last_wake = ev.at]
                    [] ev.op = "Clone" ->
                         [st EXCEPT !.waker_clones = st.waker_clones + 1]
                    [] OTHER ->
                         [st EXCEPT !.waker_drops = st.waker_drops + 1]
       IN Data(d.tasks, TD_store(d.stats, task_id, st1), ids, d.all_metadata,
               d.new_metadata, FALSE)

\* on_waker without the `if let WakeOp::Wake = op` of line 465: waking by
\* reference counts a drop too
on_waker_by_ref_drops(d, ev) ==
  LET task_id == id_for_id(d.task_ids, ev.id)
      ids == id_for(d.task_ids, ev.id)
  IN IF ~TD_contains(d.stats, task_id)
     THEN Data(d.tasks, d.stats, ids, d.all_metadata, d.new_metadata, FALSE)
     ELSE
       LET st == d.stats[task_id].val
           st1 == CASE ev.op = "Wake" ->
                         [st EXCEPT !.wakes = st.wakes + 1, !.last_wake = ev.at,
                                    !.waker_drops = st.waker_drops + 1]
                    [] ev.op = "WakeByRef" ->
                         [st EXCEPT !.wakes = st.wakes + 1, !.last_wake = ev.at,
                                    !.waker_drops = st.waker_drops + 1]
                    [] ev.op = "Clone" ->
                         [st EXCEPT !.waker_clones = st.waker_clones + 1]
                    [] OTHER ->
                         [st EXCEPT !.waker_drops = st.waker_drops + 1]
       IN Data(d.tasks, TD_store(d.stats, task_id, st1), ids, d.all_metadata,
               d.new_metadata, FALSE)

on_waker(d, ev) ==
  LET task_id == id_for_id(d.task_ids, ev.id)
      ids == id_for(d.task_ids, ev.id)
  IN IF ~TD_contains(d.stats, task_id)
     THEN Data(d.tasks, d.stats, ids, d.all_metadata, d.new_metadata, FALSE)
     ELSE
       LET st == d.stats[task_id].val
           st1 == CASE ev.op = "Wake" ->
                         [st EXCEPT !.wakes = st.wakes + 1, !.last_wake = ev.at,
                                    !.waker_drops = st.waker_drops + 1]
                    [] ev.op = "WakeByRef" ->
                         [st EXCEPT !.wakes = st.wakes + 1, !.last_wake = ev.at]
                    [] ev.op = "Clone" ->
                         [st EXCEPT !.waker_clones = st.waker_clones + 1]
                    [] OTHER ->
                         [st EXCEPT !.waker_drops = st.waker_drops + 1]
       IN Data(d.tasks, TD_store(d.stats, task_id, st1), ids, d.all_metadata,
               d.new_metadata, FALSE)

update_state(d, ev, wraps) ==
  CASE ev.type = "Metadata" -> on_metadata(d, ev)
    [] ev.type = "Spawn" -> on_spawn(d, ev)
    [] ev.type = "Enter" -> on_enter(d, ev)
    [] ev.type = "Exit" -> on_exit(d, ev, wraps)
    [] ev.type = "Close" -> on_close(d, ev)
    [] OTHER -> on_waker(d, ev)

Event(type, id, op, at) == [type |-> type, id |-> id, op |-> op, at |-> at]

\* ------------------------------------------------------------ Watch
Watch_update_open(s) == sinks[s].st = "open"

\* `Watch::update`: try_reserve succeeds iff the channel is open and not full
Watch_update(s) == sinks[s].st = "open" /\ sinks[s].len < SinkCap

NoUpdate ==
  [kind |-> "none", new_metadata |-> <<>>, new_tasks |-> {},
   stats_update |-> EmptyMap, accepted |-> {}]

\* ------------------------------------------------------------ publish
TaskUpdate(kind, meta, task_set, stat_set, accepted) ==
  [kind |-> kind, new_metadata |-> meta,
   new_tasks |-> {Task_to_proto(id, tasks[id].val) : id \in task_set},
   stats_update |-> [id \in stat_set |-> Stats_to_proto(stats[id].val)],
   accepted |-> accepted]

\* the sinks after the watches in `sent` took a message and those in `gone`
\* were dropped with their Watch
SinksAfter(sent, gone) ==
  [s \in DOMAIN sinks |->
     IF s \in gone THEN [st |-> "free", len |-> 0]
     ELSE IF s \in sent THEN [st |-> sinks[s].st, len |-> sinks[s].len + 1]
     ELSE sinks[s]]

\* details_kept without the `stats.get(&id)` of line 361: the watchers of
\* a task without stats stay if their sinks have room
details_kept_without_stats(dw, st) ==
  LET kept(id) == SelectSeq(dw[id], Watch_update)
  IN [id \in {i \in DOMAIN dw : kept(i) # <<>>} |-> kept(id)]

\* the details watchers `publish` keeps: only for tasks that still have
\* stats, only the sinks that accepted, only non-empty lists
details_kept(dw, st) ==
  LET kept(id) == SelectSeq(dw[id], Watch_update)
  IN [id \in {i \in DOMAIN dw : i \in DOMAIN st /\ kept(i) # <<>>} |-> kept(id)]

details_offered(dw, st) ==
  UNION {Range(dw[id]) : id \in DOMAIN dw \cap DOMAIN st}

details_all(dw) == UNION {Range(dw[id]) : id \in DOMAIN dw}

publish ==
  LET kept == SelectSeq(watchers, Watch_update)
      dkept == details_kept(details_watchers, stats)
      sent == Range(kept) \cup details_all(dkept)
      gone == (Range(watchers) \ Range(kept))
              \cup (details_all(details_watchers) \ details_all(dkept))
  IN /\ last_update' = TaskUpdate("publish", new_metadata, TD_dirty(tasks),
                                  TD_dirty(stats), Range(kept))
     /\ last_details' = UNION {{<<id, w>> : w \in Range(dkept[id])} :
                                 id \in DOMAIN dkept}
     /\ new_metadata' = <<>>
     /\ watchers' = kept
     /\ details_watchers' = dkept
     /\ sinks' = SinksAfter(sent, gone)

\* publish that reads the maps without consuming `since_last_update()`
after_publish_unconsumed(m, published) == m

\* the maps after `since_last_update()` when `published`, else as they were
after_publish(m, published) == IF published THEN TD_cleared(m) ELSE m

\* ------------------------------------------------------------ drop_closed_tasks
closed_for(st, t) == IF t >= st.closed_at THEN t - st.closed_at ELSE 0

should_drop(entry, has_watchers, t) ==
  (entry.dirty /\ has_watchers) \/ closed_for(entry.val, t) > retention

ClosedIds(m) == {id \in DOMAIN m : m[id].val.closed_at # None}

\* `stats.retain_and_shrink(..)`: the entries kept
stats_retained(m, has_watchers, t) ==
  {id \in DOMAIN m :
     id \in ClosedIds(m) => ~should_drop(m[id], has_watchers, t)}

\* `dropped_stats = should_drop` is assigned for every closed entry visited,
\* so its final value is that of the closed entry the map iterates last
dropped_stats_values(m, has_watchers, t) ==
  IF ClosedIds(m) = {} THEN {FALSE}
  ELSE {should_drop(m[id], has_watchers, t) : id \in ClosedIds(m)}

\* drop_closed_tasks, on the maps `t0`, `s0` as publish left them
drop_closed_tasks(t0, s0, has_watchers) ==
  \E dropped_stats \in dropped_stats_values(s0, has_watchers, now) :
    LET s1 == TD_retain(s0, stats_retained(s0, has_watchers, now))
        t1 == IF dropped_stats THEN TD_retain(t0, DOMAIN s1) ELSE t0
    IN /\ stats' = s1
       /\ tasks' = t1
       /\ task_ids' = IF dropped_stats THEN retain_only(task_ids, DOMAIN t1)
                      ELSE task_ids

\* ------------------------------------------------------------ Init
Init ==
  /\ pc = "select"
  /\ should_send = FALSE
  /\ source = "none"
  /\ temporality = "Live"
  /\ watchers = <<>>
  /\ details_watchers = EmptyMap
  /\ all_metadata = <<>>
  /\ new_metadata = <<>>
  /\ tasks = EmptyMap
  /\ stats = EmptyMap
  /\ task_ids = [next |-> 0, id_mappings |-> EmptyMap]
  /\ events = <<>>
  /\ events_closed = FALSE
  /\ rpcs = <<>>
  /\ rpcs_closed = FALSE
  /\ triggered = FALSE
  /\ should_flush = FALSE
  /\ notifying = FALSE
  /\ sinks = [s \in SinkIds \cup DetailSinkIds |-> [st |-> "free", len |-> 0]]
  /\ now = 0
  /\ last_update = NoUpdate
  /\ last_details = {}
  /\ detail_reply = "none"
  /\ pending = 0
  /\ late = {}
  /\ overdue = {}
  /\ trigs = 0
  /\ wins = 0
  /\ flushes = 0
  /\ carried = FALSE
  /\ step = [h \in Handles |-> Start]
  /\ receiver = [h \in Handles |-> 0]
  /\ handle = [h \in Handles |-> IF h = 1 THEN "live" ELSE "unused"]
  /\ broadcast = <<>>
  /\ returned = [op |-> "none", h |-> 0, arg |-> Start, result |-> "none"]

\* ------------------------------------------------------------ Aggregator::run
\* what every select! branch does to the bookkeeping of the iteration
BeginIteration(src, send) ==
  /\ pc = "select"
  /\ source' = src
  /\ should_send' = send
  /\ pending' = Len(events)

tick_should_send_always(t) == TRUE

\* `match self.temporality { Live => true, Paused => false }`
tick_should_send(t) == t = "Live"

\* `_ = publish.tick() => ..`
TickBranch ==
  /\ BeginIteration("tick", tick_should_send(temporality))
  /\ pc' = "drain"
  /\ last_update' = NoUpdate
  /\ last_details' = {}
  /\ UNCHANGED <<temporality, watchers, details_watchers, all_metadata,
                 new_metadata, tasks, stats, task_ids, chanVars, flushVars,
                 sinks, now, detail_reply, late, overdue>>

Tick == TickBranch /\ UNCHANGED <<cntVars, testVars>>

\* the tick, opening a new window of the trigger counts
TickCounting ==
  /\ TickBranch
  /\ trigs' = 0
  /\ wins' = 0
  /\ flushes' = 0
  /\ carried' = triggered
  /\ UNCHANGED testVars

\* `_ = self.flush_capacity.should_flush.notified() => {`: the permit is taken
FlushBranch ==
  /\ should_flush
  /\ BeginIteration("flush", FALSE)
  /\ should_flush' = FALSE
  /\ pc' = "store"
  /\ last_update' = NoUpdate
  /\ last_details' = {}
  /\ UNCHANGED <<temporality, watchers, details_watchers, all_metadata,
                 new_metadata, tasks, stats, task_ids, chanVars, triggered,
                 notifying, sinks, now, detail_reply, late, overdue>>

FlushNotified == FlushBranch /\ UNCHANGED <<cntVars, testVars>>

FlushNotifiedCounting ==
  /\ FlushBranch
  /\ flushes' = IF carried THEN flushes ELSE flushes + 1
  /\ carried' = FALSE
  /\ UNCHANGED <<trigs, wins, testVars>>

\* `self.flush_capacity.triggered.store(false, Release)`
FlushStore ==
  /\ pc = "store"
  /\ triggered' = FALSE
  /\ pc' = "drain"
  /\ UNCHANGED <<should_send, source, temporality, watchers, details_watchers,
                 all_metadata, new_metadata, tasks, stats, task_ids, chanVars,
                 should_flush, notifying, sinks, now, obsVars, cntVars, testVars>>

add_task_subscription_unchecked(subscription) ==
  /\ last_update' = TaskUpdate("initial", all_metadata, TD_all(tasks),
                               TD_all(stats),
                               IF Watch_update(subscription)
                               THEN {subscription} ELSE {})
  /\ watchers' = Append(watchers, subscription)
  /\ sinks' = IF Watch_update(subscription)
              THEN SinksAfter({subscription}, {}) ELSE sinks
  /\ late' = late \cap ClosedIds(stats)
  /\ UNCHANGED <<details_watchers, detail_reply, temporality>>

\* add_task_subscription
add_task_subscription(subscription) ==
  LET ok == Watch_update(subscription) IN
  /\ last_update' = TaskUpdate("initial", all_metadata, TD_all(tasks),
                               TD_all(stats),
                               IF ok THEN {subscription} ELSE {})
  /\ watchers' = IF ok THEN Append(watchers, subscription) ELSE watchers
  /\ sinks' = IF ok THEN SinksAfter({subscription}, {})
              ELSE SinksAfter({}, {subscription})
  /\ late' = IF ok THEN late \cap ClosedIds(stats) ELSE late
  /\ UNCHANGED <<details_watchers, detail_reply, temporality>>

add_task_detail_subscription_unsent(id, send_ok, open) ==
  LET found == TD_contains(stats, id)
      free == {s \in DetailSinkIds : sinks[s].st = "free"}
      tx == CHOOSE s \in free : TRUE
      registered == found /\ send_ok
  IN /\ free # {}
     /\ detail_reply' = IF ~found THEN "dropped"
                        ELSE IF ~send_ok THEN "send_failed"
                        ELSE IF open THEN "registered" ELSE "update_failed"
     /\ details_watchers' =
          IF registered
          THEN MapPut(details_watchers, id,
                      IF id \in DOMAIN details_watchers
                      THEN Append(details_watchers[id], tx) ELSE <<tx>>)
          ELSE details_watchers
     /\ sinks' = IF registered
                 THEN [sinks EXCEPT ![tx] = [st |-> IF open THEN "open"
                                                    ELSE "closed",
                                             len |-> IF open THEN 1 ELSE 0]]
                 ELSE sinks
     /\ last_update' = NoUpdate
     /\ UNCHANGED <<watchers, temporality, late>>

\* add_task_detail_subscription: `send_ok` is `stream_sender.send(rx).is_ok()`
\* and `open` whether the requester still holds the receiver at the update
add_task_detail_subscription(id, send_ok, open) ==
  LET found == TD_contains(stats, id)
      free == {s \in DetailSinkIds : sinks[s].st = "free"}
      tx == CHOOSE s \in free : TRUE
      registered == found /\ send_ok /\ open
  IN /\ free # {}
     /\ detail_reply' = IF ~found THEN "dropped"
                        ELSE IF ~send_ok THEN "send_failed"
                        ELSE IF open THEN "registered" ELSE "update_failed"
     /\ details_watchers' =
          IF registered
          THEN MapPut(details_watchers, id,
                      IF id \in DOMAIN details_watchers
                      THEN Append(details_watchers[id], tx) ELSE <<tx>>)
          ELSE details_watchers
     /\ sinks' = IF registered
                 THEN [sinks EXCEPT ![tx] = [st |-> "open", len |-> 1]]
                 ELSE sinks
     /\ last_update' = NoUpdate
     /\ UNCHANGED <<watchers, temporality, late>>

\* `cmd = self.rpcs.recv() => match cmd { Some(..) => .. }`
RecvCommand ==
  /\ rpcs # <<>>
  /\ BeginIteration("cmd", FALSE)
  /\ rpcs' = Tail(rpcs)
  /\ pc' = "drain"
  /\ last_details' = {}
  /\ LET cmd == Head(rpcs) IN
       CASE cmd.type = "WatchTasks" -> add_task_subscription(cmd.id)
         [] cmd.type = "WatchTaskDetail" ->
              \E send_ok \in BOOLEAN, open \in BOOLEAN :
                add_task_detail_subscription(cmd.id, send_ok, open)
         [] cmd.type = "Pause" ->
              /\ temporality' = "Paused"
              /\ last_update' = NoUpdate
              /\ UNCHANGED <<watchers, details_watchers, sinks, detail_reply,
                             late>>
         [] OTHER ->
              /\ temporality' = "Live"
              /\ last_update' = NoUpdate
              /\ UNCHANGED <<watchers, details_watchers, sinks, detail_reply,
                             late>>
  /\ UNCHANGED <<all_metadata, new_metadata, tasks, stats, task_ids, events,
                 events_closed, rpcs_closed, flushVars, now, overdue, cntVars, testVars>>

\* `None => { tracing::debug!("rpc channel closed, terminating"); return; }`
RecvNone ==
  /\ pc = "select"
  /\ rpcs = <<>>
  /\ rpcs_closed
  /\ pc' = "done"
  /\ UNCHANGED <<should_send, source, temporality, watchers, details_watchers,
                 all_metadata, new_metadata, tasks, stats, task_ids, chanVars,
                 flushVars, sinks, now, obsVars, cntVars, testVars>>

\* `self.events.recv().await` in the place of now_or_never(): an empty
\* channel with senders left suspends the drain
recv_now_or_never_awaited(q, closed) ==
  IF q # <<>> THEN "event" ELSE IF closed THEN "closed" ELSE "suspended"

recv_now_or_never_open(q, closed) ==
  IF q # <<>> THEN "event" ELSE "pending"

recv_now_or_never_last_left(q, closed) ==
  IF Len(q) > 1 THEN "event" ELSE IF closed THEN "closed" ELSE "pending"

\* `self.events.recv().now_or_never()`: a buffered event if there is one,
\* else the end of the channel if its senders are gone, else not ready
recv_now_or_never(q, closed) ==
  IF q # <<>> THEN "event" ELSE IF closed THEN "closed" ELSE "pending"

\* `while let Some(event) = self.events.recv().now_or_never()`: one event
DrainEvent ==
  /\ pc = "drain"
  /\ recv_now_or_never(events, events_closed) = "event"
  /\ LET ev == Head(events)
         task_id == id_for_id(task_ids, ev.id)
     IN /\ \E wraps \in IF ev.type = "Exit" THEN BOOLEAN ELSE {TRUE} :
             LET d == update_state(Data(tasks, stats, task_ids, all_metadata,
                                        new_metadata, FALSE), ev, wraps)
             IN /\ tasks' = d.tasks
                /\ stats' = d.stats
                /\ task_ids' = d.task_ids
                /\ all_metadata' = d.all_metadata
                /\ new_metadata' = d.new_metadata
                /\ pc' = IF d.panicked THEN "panicked" ELSE "drain"
        /\ late' = IF ev.type = "Spawn"
                   THEN IF watchers = <<>> THEN late \cup {task_id}
                        ELSE late \ {task_id}
                   ELSE late
        /\ overdue' = IF ev.type = "Metadata" THEN overdue
                      ELSE overdue \ {task_id}
  /\ events' = Tail(events)
  /\ pending' = IF pending > 0 THEN pending - 1 ELSE 0
  /\ UNCHANGED <<should_send, source, temporality, watchers, details_watchers,
                 events_closed, rpcs, rpcs_closed, flushVars, sinks, now,
                 last_update, last_details, detail_reply, cntVars, testVars>>

\* the drain finds the channel closed: `None => { ..; return; }`
DrainClosed ==
  /\ pc = "drain"
  /\ recv_now_or_never(events, events_closed) = "closed"
  /\ pc' = "done"
  /\ UNCHANGED <<should_send, source, temporality, watchers, details_watchers,
                 all_metadata, new_metadata, tasks, stats, task_ids, chanVars,
                 flushVars, sinks, now, obsVars, cntVars, testVars>>

Expired(m, t) == {id \in ClosedIds(m) : closed_for(m[id].val, t) > retention}

\* the guard without `!self.watchers.is_empty()`
should_publish_unwatched(w, send) == send

\* `if !self.watchers.is_empty() && should_send`
should_publish(w, send) == w # <<>> /\ send

\* the drain finds the channel empty: publish if due, then drop_closed_tasks
FinishIteration ==
  /\ pc = "drain"
  /\ recv_now_or_never(events, events_closed) = "pending"
  /\ LET published == should_publish(watchers, should_send) IN
       /\ IF published
          THEN publish
          ELSE UNCHANGED <<last_update, last_details, new_metadata, watchers,
                           details_watchers, sinks>>
       /\ drop_closed_tasks(after_publish(tasks, published),
                            after_publish(stats, published), watchers' # <<>>)
  /\ pc' = "select"
  /\ late' = late \cap DOMAIN stats'
  /\ overdue' = {id \in DOMAIN tasks' \cup DOMAIN stats' :
                   \/ id \in overdue
                   \/ source = "tick" /\ id \in Expired(stats, now)}
  /\ source' = "none"
  /\ should_send' = FALSE
  /\ UNCHANGED <<temporality, all_metadata, chanVars, flushVars, now,
                 detail_reply, pending, cntVars, testVars>>

\* ------------------------------------------------------------ environment
Running == pc \notin {"done", "panicked"}

QueuedMeta == Cardinality({i \in DOMAIN events : events[i].type = "Metadata"})

\* a producer (the TaskLayer) sends an event stamped with the wall clock
Produce(kinds, spans, cap) ==
  /\ Running
  /\ ~events_closed
  /\ Len(events) < cap
  /\ \E type \in kinds :
       \E id \in IF type = "Metadata" THEN MetaIds ELSE 1..spans :
         \E op \in IF type = "Waker" THEN WakeOps ELSE {"-"} :
           /\ IF type = "Metadata"
              THEN Len(all_metadata) + QueuedMeta < MaxMeta
              ELSE \/ Mapped(task_ids, id)
                   \/ task_ids.next + Len(events) < MaxTaskId
           /\ events' = Append(events, Event(type, id, op, now))
  /\ UNCHANGED <<aggVars, events_closed, rpcs, rpcs_closed, flushVars, sinks,
                 now, obsVars, cntVars, testVars>>

\* the last event sender is dropped
CloseEvents ==
  /\ ~events_closed
  /\ events_closed' = TRUE
  /\ UNCHANGED <<aggVars, events, rpcs, rpcs_closed, flushVars, sinks, now,
                 obsVars, cntVars, testVars>>

Command(type, id) == [type |-> type, id |-> id]

QueuedDetail ==
  Cardinality({i \in DOMAIN rpcs : rpcs[i].type = "WatchTaskDetail"})

FreeSinks(pool) == {s \in pool : sinks[s].st = "free"}

SendCommand(cmd) ==
  /\ Running
  /\ ~rpcs_closed
  /\ Len(rpcs) < MaxCmds
  /\ rpcs' = Append(rpcs, cmd)
  /\ UNCHANGED <<aggVars, events, events_closed, rpcs_closed, flushVars, now,
                 obsVars, cntVars, testVars>>

\* the RPC server sends WatchTasks with the sink of the new stream
SendWatchTasks(pool) ==
  \E s \in FreeSinks(1..pool) :
    /\ SendCommand(Command("WatchTasks", s))
    /\ sinks' = [sinks EXCEPT ![s] = [st |-> "open", len |-> 0]]

SendWatchTaskDetail ==
  /\ Cardinality(FreeSinks(DetailSinkIds)) > QueuedDetail
  /\ \E id \in TaskIdSet : SendCommand(Command("WatchTaskDetail", id))
  /\ UNCHANGED sinks

SendTemporality ==
  /\ \E type \in {"Pause", "Resume"} : SendCommand(Command(type, 0))
  /\ UNCHANGED sinks

\* the last command sender is dropped
CloseRpcs ==
  /\ ~rpcs_closed
  /\ rpcs_closed' = TRUE
  /\ UNCHANGED <<aggVars, events, events_closed, rpcs, flushVars, sinks, now,
                 obsVars, cntVars, testVars>>

trigger_notifies_always(won) == TRUE

\* trigger without the notify_one() of line 537
trigger_notifies_never(won) == FALSE

\* `Flush::trigger`: whether a call notifies, given that its CAS `won`
trigger_notifies(won) == won

\* `Flush::trigger`, the compare_exchange(false, true, ..)
TriggerStep ==
  /\ Running
  /\ triggered' = TRUE
  /\ notifying' = (notifying \/ trigger_notifies(~triggered))
  /\ UNCHANGED <<aggVars, chanVars, should_flush, sinks, now, obsVars>>

TriggerCAS == TriggerStep /\ UNCHANGED <<cntVars, testVars>>

TriggerCASCounting ==
  /\ TriggerStep
  /\ trigs < MaxTrig
  /\ trigs' = trigs + 1
  /\ wins' = IF triggered THEN wins ELSE wins + 1
  /\ UNCHANGED <<flushes, carried, testVars>>

\* `Flush::trigger`, the notify_one() of the call that won
TriggerNotify ==
  /\ notifying
  /\ notifying' = FALSE
  /\ should_flush' = TRUE
  /\ UNCHANGED <<aggVars, chanVars, triggered, sinks, now, obsVars, cntVars, testVars>>

\* a subscriber takes a message out of its stream
SinkRecv ==
  /\ \E s \in DOMAIN sinks :
       /\ sinks[s].st = "open"
       /\ sinks[s].len > 0
       /\ sinks' = [sinks EXCEPT ![s].len = @ - 1]
  /\ UNCHANGED <<aggVars, chanVars, flushVars, now, obsVars, cntVars, testVars>>

\* a subscriber goes away: its receiver is closed
SinkClose ==
  /\ \E s \in DOMAIN sinks :
       /\ sinks[s].st = "open"
       /\ sinks' = [sinks EXCEPT ![s].st = "closed"]
  /\ UNCHANGED <<aggVars, chanVars, flushVars, now, obsVars, cntVars, testVars>>

ClockAdvance ==
  /\ now < MaxTime
  /\ now' = now + 1
  /\ UNCHANGED <<aggVars, chanVars, flushVars, sinks, obsVars, cntVars, testVars>>

\* the wall clock is set back: SystemTime is not monotonic
ClockStepBack ==
  /\ now > 0
  /\ now' = now - 1
  /\ UNCHANGED <<aggVars, chanVars, flushVars, sinks, obsVars, cntVars, testVars>>

\* ------------------------------------------------------------ TestState
\* `update_step`: try_recv until Empty. A receiver that fell more than
\* Capacity behind gets Lagged and is moved to the oldest message kept; a
\* message received becomes the step.
RECURSIVE update_step_from(_, _)
update_step_from(st, pos) ==
  IF pos = Len(broadcast)
  THEN [step |-> st, receiver |-> pos]
  ELSE IF Len(broadcast) - pos > Capacity
       THEN update_step_from(st, Len(broadcast) - Capacity)
       ELSE update_step_from(broadcast[pos + 1], pos + 1)

update_step(h) == update_step_from(step[h], receiver[h])

\* the handle `h` after its update_step
Updated(h) ==
  /\ step' = [step EXCEPT ![h] = update_step(h).step]
  /\ receiver' = [receiver EXCEPT ![h] = update_step(h).receiver]

Returned(op, h, arg, result) ==
  [op |-> op, h |-> h, arg |-> arg, result |-> result]

advance_outcome_any_later(current, next_step) ==
  IF current >= next_step THEN "panic_not_later" ELSE "sent"

\* `advance_to_step` after its update_step: the `>=` test, then the `match`
\* on the four pairs of consecutive steps
advance_outcome(current, next_step) ==
  IF current >= next_step THEN "panic_not_later"
  ELSE IF <<current, next_step>> \in
            {<<Start, ServerStarted>>, <<ServerStarted, ClientConnected>>,
             <<ClientConnected, TestFinished>>,
             <<TestFinished, UpdatesRecorded>>}
       THEN "sent"
       ELSE "panic_skipped"

advance_to_step(h, next_step) ==
  LET outcome == advance_outcome(update_step(h).step, next_step) IN
  /\ handle[h] = "live"
  /\ Len(broadcast) < MaxSent
  /\ Updated(h)
  /\ broadcast' = IF outcome = "sent" THEN Append(broadcast, next_step)
                  ELSE broadcast
  /\ handle' = IF outcome = "sent" THEN handle
               ELSE [handle EXCEPT ![h] = "panicked"]
  /\ returned' = Returned("advance_to_step", h, next_step, outcome)
  /\ UNCHANGED runVars

AdvanceToStep == \E h \in Handles, next_step \in TestSteps : advance_to_step(h, next_step)

\* `self.step == desired_step`
try_wait_result(current, desired_step) == current = desired_step

try_wait_for_step(h, desired_step) ==
  /\ handle[h] = "live"
  /\ Updated(h)
  /\ returned' = Returned("try_wait_for_step", h, desired_step,
                          try_wait_result(update_step(h).step, desired_step))
  /\ UNCHANGED <<handle, broadcast, runVars>>

TryWaitForStep ==
  \E h \in Handles, desired_step \in TestSteps : try_wait_for_step(h, desired_step)

\* `wait_for_step`, polled: it returns once `self.step >= desired_step`
\* (result TRUE) and is otherwise left waiting in `recv().await`
wait_for_step(h, desired_step) ==
  /\ handle[h] = "live"
  /\ Updated(h)
  /\ returned' = Returned("wait_for_step", h, desired_step,
                          update_step(h).step >= desired_step)
  /\ UNCHANGED <<handle, broadcast, runVars>>

WaitForStep ==
  \E h \in Handles, desired_step \in TestSteps : wait_for_step(h, desired_step)

\* `impl Clone for TestState`: the step is copied and the receiver
\* resubscribed, so it sees only what is sent from now on
Clone ==
  /\ \E h \in Handles, c \in Handles :
       /\ handle[h] = "live"
       /\ handle[c] = "unused"
       /\ handle' = [handle EXCEPT ![c] = "live"]
       /\ step' = [step EXCEPT ![c] = step[h]]
       /\ receiver' = [receiver EXCEPT ![c] = Len(broadcast)]
  /\ UNCHANGED <<broadcast, returned, runVars>>

\* ------------------------------------------------------------ specifications
LifecycleKinds == {"Metadata", "Spawn", "Close"}

TaskKinds == {"Spawn", "Close"}

ProduceLifecycle == Produce(LifecycleKinds, FewSpans, FewEvents)

WatchTasksOne == SendWatchTasks(FewSinks)

\* The loop with all three sources of the select!, one subscriber and one
\* producer, within one clock instant.
Next ==
  \/ Tick
  \/ FlushNotified
  \/ FlushStore
  \/ RecvCommand
  \/ DrainEvent
  \/ FinishIteration
  \/ ProduceLifecycle
  \/ WatchTasksOne
  \/ SendTemporality
  \/ TriggerCAS
  \/ TriggerNotify
  \/ SinkRecv
  \/ SinkClose

Spec == Init /\ [][Next]_vars

ProduceTasks == Produce(TaskKinds, MaxSpans, FewEvents)

\* The loop under a running clock: retention and its expiry.
NextGC ==
  \/ Tick
  \/ RecvCommand
  \/ DrainEvent
  \/ FinishIteration
  \/ ProduceTasks
  \/ WatchTasksOne
  \/ ClockAdvance

SpecGC == Init /\ [][NextGC]_vars

ProduceBurst == Produce(LifecycleKinds, FewSpans, MaxEvents)

\* The publish tick over a channel that holds several events.
NextDrain ==
  \/ Tick
  \/ RecvCommand
  \/ DrainEvent
  \/ FinishIteration
  \/ ProduceBurst
  \/ WatchTasksOne
  \/ SinkRecv

SpecDrain == Init /\ [][NextDrain]_vars

ProduceSpawn == Produce({"Spawn"}, FewSpans, FewEvents)

WatchTasksMany == SendWatchTasks(MaxSinks)

\* The publisher over several subscribers, slow, gone or keeping up.
NextWatch ==
  \/ Tick
  \/ RecvCommand
  \/ DrainEvent
  \/ FinishIteration
  \/ ProduceSpawn
  \/ WatchTasksMany
  \/ SinkRecv
  \/ SinkClose

SpecWatch == Init /\ [][NextWatch]_vars

\* The flush signal: producers' triggers against ticks and flush passes,
\* with the calls, the CAS wins and the passes counted between ticks.
NextFlush ==
  \/ TickCounting
  \/ FlushNotifiedCounting
  \/ FlushStore
  \/ DrainEvent
  \/ FinishIteration
  \/ ProduceSpawn
  \/ TriggerCASCounting
  \/ TriggerNotify

SpecFlush == Init /\ [][NextFlush]_vars

ProduceOneTask == Produce(TaskKinds, FewSpans, FewEvents)

\* Per-task detail subscriptions.
NextDetail ==
  \/ Tick
  \/ RecvCommand
  \/ DrainEvent
  \/ FinishIteration
  \/ ProduceOneTask
  \/ SendWatchTaskDetail
  \/ WatchTasksOne
  \/ SinkRecv
  \/ SinkClose

SpecDetail == Init /\ [][NextDetail]_vars

\* The input channels closing. The timer keeps ticking and the aggregator
\* task keeps being scheduled (weak fairness of its steps); a select! with
\* several ready branches picks among them at random, so a branch that is
\* ready again and again is eventually taken (strong fairness). The drain
\* "stops as soon as the channel is momentarily empty": producers do not keep
\* the channel non-empty ahead of every poll of a drain for ever
\* (DrainCatchesUp), and a drain that finds the channel empty again and
\* again eventually ends (strong fairness of FinishIteration).
NextStop ==
  \/ Tick
  \/ RecvCommand
  \/ RecvNone
  \/ DrainEvent
  \/ DrainClosed
  \/ FinishIteration
  \/ ProduceSpawn
  \/ WatchTasksOne
  \/ SendTemporality
  \/ CloseEvents
  \/ CloseRpcs

DrainCatchesUp == []<>(pc # "drain" \/ events = <<>>)

SpecStop ==
  /\ Init
  /\ [][NextStop]_vars
  /\ WF_vars(Tick)
  /\ WF_vars(DrainEvent)
  /\ WF_vars(DrainClosed)
  /\ SF_vars(FinishIteration)
  /\ SF_vars(RecvCommand)
  /\ SF_vars(RecvNone)
  /\ DrainCatchesUp

\* Flush under a fair select. The callers of trigger race with tick, flush
\* and command iterations; a caller that won the compare_exchange goes on
\* to notify_one, a branch of the select that is ready again and again is
\* taken, and the drain catches up with the producers.
NextFlushFair ==
  \/ TickCounting
  \/ FlushNotifiedCounting
  \/ FlushStore
  \/ RecvCommand
  \/ DrainEvent
  \/ FinishIteration
  \/ ProduceSpawn
  \/ SendTemporality
  \/ TriggerCASCounting
  \/ TriggerNotify

SpecFlushFair ==
  /\ Init
  /\ [][NextFlushFair]_vars
  /\ WF_vars(TriggerNotify)
  /\ SF_vars(FlushNotifiedCounting)
  /\ WF_vars(FlushStore)
  /\ WF_vars(DrainEvent)
  /\ SF_vars(FinishIteration)
  /\ DrainCatchesUp

\* Iterations without a task watcher. Metadata and task events arrive and
\* detail subscribers come and go while task watchers are absent for a
\* time.
NextUnwatched ==
  \/ Tick
  \/ RecvCommand
  \/ DrainEvent
  \/ FinishIteration
  \/ ProduceLifecycle
  \/ SendWatchTaskDetail
  \/ WatchTasksOne
  \/ SinkRecv
  \/ SinkClose

SpecUnwatched == Init /\ [][NextUnwatched]_vars

\* Polls. One task is entered and exited, nested or not, with or without a
\* Spawn, under a clock that moves both ways.
PollKinds == {"Spawn", "Enter", "Exit"}

PollsBounded ==
  \A id \in DOMAIN stats :
    /\ stats[id].val.polls < MaxPolls
    /\ stats[id].val.current_polls < MaxDepth
          \/ stats[id].val.current_polls = U64Max

ProducePolls ==
  IF PollsBounded
  THEN Produce(PollKinds, FewSpans, FewEvents)
  ELSE Produce({"Spawn"}, FewSpans, FewEvents)

NextPoll ==
  \/ Tick
  \/ DrainEvent
  \/ FinishIteration
  \/ ProducePolls
  \/ ClockAdvance
  \/ ClockStepBack

SpecPoll == Init /\ [][NextPoll]_vars

\* Wakers. Waker operations arrive for a spawned task and for span ids that
\* were never spawned.
WakerKinds == {"Spawn", "Waker"}

WakesBounded ==
  \A id \in DOMAIN stats :
    /\ stats[id].val.wakes <= MaxWakes
    /\ stats[id].val.waker_clones <= MaxWakes
    /\ stats[id].val.waker_drops <= MaxWakes

ProduceWakers ==
  IF WakesBounded
  THEN Produce(WakerKinds, FewSpans, FewEvents)
  ELSE Produce({"Spawn"}, FewSpans, FewEvents)

NextWaker ==
  \/ Tick
  \/ DrainEvent
  \/ FinishIteration
  \/ ProduceWakers
  \/ ClockAdvance

SpecWaker == Init /\ [][NextWaker]_vars

\* TaskId allocation. One span id is spawned, entered and closed in any
\* order, dropped by retention GC and observed again.
IdKinds == {"Spawn", "Enter", "Close"}

ProduceIds ==
  IF PollsBounded
  THEN Produce(IdKinds, FewSpans, FewEvents)
  ELSE Produce({"Spawn", "Close"}, FewSpans, FewEvents)

NextIds ==
  \/ Tick
  \/ DrainEvent
  \/ FinishIteration
  \/ ProduceIds
  \/ ClockAdvance

SpecIds == Init /\ [][NextIds]_vars

\* The test support's step tracker, used through its handles.
NextTest ==
  \/ AdvanceToStep
  \/ TryWaitForStep
  \/ WaitForStep
  \/ Clone

SpecTest == Init /\ [][NextTest]_vars

\* ------------------------------------------------------------ claims
\* a step that ends a loop iteration: publish if due, then retention GC
GCStep == pc = "drain" /\ pc' = "select"

\* the publisher runs in this step
PublishStep == GCStep /\ last_update'.kind = "publish"

\* the current stats of `id` have been sent in a TaskUpdate: by an earlier
\* publish (the entry is clean), by the publish of this iteration, or by the
\* initial snapshot of this iteration if they have not changed since
Emitted(id) ==
  \/ ~stats[id].dirty
  \/ should_send /\ watchers # <<>>
  \/ /\ last_update.kind = "initial"
     /\ last_update.accepted # {}
     /\ id \in DOMAIN last_update.stats_update
     /\ last_update.stats_update[id] = Stats_to_proto(stats[id].val)

\* C1: while a task-update watcher stays registered, retention GC removes
\* the stats entry of a closed task only after its final stats have been
\* emitted in a TaskUpdate.
C1_FinalStateDelivered ==
  [][\A id \in ClosedIds(stats) :
       (GCStep /\ watchers # <<>> /\ watchers' # <<>> /\ id \notin DOMAIN stats')
         => Emitted(id)]_vars

\* C2: a task spawned and closed while no watcher was registered is in the
\* initial snapshot of a later WatchTasks, and leaves stats only once its
\* retention has expired.
C2_LateSubscriber ==
  [][/\ \A id \in late \cap ClosedIds(stats) :
          (GCStep /\ id \notin DOMAIN stats')
            => closed_for(stats[id].val, now) > retention
     /\ \A id \in late \cap ClosedIds(stats) :
          (pc = "select" /\ last_update'.kind = "initial")
            => id \in DOMAIN last_update'.stats_update]_vars

\* C10: a closed task whose retention had expired at the GC of one publish
\* tick is in neither map after the GC of the next tick.
C10_ExpiredRemovedWithinOneTick ==
  [][(GCStep /\ source = "tick")
       => overdue \cap (DOMAIN tasks' \cup DOMAIN stats') = {}]_vars

\* the aggregator puts a message into the channel of sink `s` in this step
Delivery(s) == sinks'[s].len > sinks[s].len

\* the select! branch of this step receives a subscription command
SubscribeStep ==
  /\ pc = "select"
  /\ pc' = "drain"
  /\ source' = "cmd"
  /\ rpcs # <<>>
  /\ Head(rpcs).type \in {"WatchTasks", "WatchTaskDetail"}

LiveTick == source = "tick" /\ temporality = "Live"

C8_InitialSnapshot ==
  [][(SubscribeStep /\ Head(rpcs).type = "WatchTasks") =>
       LET s == Head(rpcs).id IN
       /\ last_update'.kind = "initial"
       /\ last_update'.new_metadata = all_metadata
       /\ last_update'.new_tasks =
            {[id |-> id, kind |-> "Spawn", metadata |-> tasks[id].val.metadata] :
               id \in DOMAIN tasks}
       /\ DOMAIN last_update'.stats_update = DOMAIN stats
       /\ \A id \in DOMAIN stats :
            last_update'.stats_update[id] = Stats_to_proto(stats[id].val)
       /\ s \in Range(watchers') <=> Delivery(s)
       /\ last_update'.accepted = (IF Delivery(s) THEN {s} ELSE {})
       /\ watchers' = (IF Delivery(s) THEN Append(watchers, s) ELSE watchers)
       /\ tasks' = tasks
       /\ stats' = stats
       /\ new_metadata' = new_metadata]_vars

\* a WatchTasks has just been handled: its sink took a snapshot that holds
\* metadata, a task and stats that an earlier publish had already sent
C8_Witness ==
  /\ pc = "drain"
  /\ source = "cmd"
  /\ last_update.kind = "initial"
  /\ last_update.accepted # {}
  /\ last_update.new_metadata # <<>>
  /\ last_update.new_tasks # {}
  /\ \E id \in DOMAIN last_update.stats_update :
       id \in DOMAIN stats /\ ~stats[id].dirty

\* C4 as stated: the calls of Flush::trigger made since the last publish
\* tick, however many, have caused at most one flush pass.
C4_OneFlushPerTickWindow == trigs >= 1 => flushes <= 1

\* C4 amended: the calls of Flush::trigger made while `triggered` is set
\* collapse into the one call that set it: since the last tick there is at
\* most one flush pass per call that won the compare_exchange, a call can
\* win only after the pass of the previous winner has stored false, a
\* notification is pending only while `triggered` is set, and a flush pass
\* never publishes.
C4_OneFlushPerWinningTrigger ==
  /\ flushes <= wins
  /\ wins <= flushes + 1
  /\ wins <= trigs
  /\ (should_flush \/ notifying) => triggered
  /\ ~(should_flush /\ notifying)
  /\ source = "flush" => ~should_send

\* two calls since the last tick, the second of which lost the
\* compare_exchange, and the single flush pass they caused is draining
C4_Witness ==
  /\ trigs = 2
  /\ wins = 1
  /\ flushes = 1
  /\ pc = "drain"
  /\ source = "flush"

\* this step takes the event at the head of the channel
DrainStep == pc = "drain" /\ events # <<>> /\ events' = Tail(events)

\* the state after the step shows the effect of `ev`
Applied(ev) ==
  LET task_id == id_for_id(task_ids, ev.id) IN
  CASE ev.type = "Metadata" ->
         /\ all_metadata' = Append(all_metadata, ev.id)
         /\ new_metadata' = Append(new_metadata, ev.id)
    [] ev.type = "Spawn" ->
         /\ task_id \in TD_dirty(tasks')
         /\ tasks'[task_id].val.metadata = ev.id
         /\ task_id \in TD_dirty(stats')
         /\ stats'[task_id].val.created_at = ev.at
    [] ev.type = "Close" ->
         /\ task_id \in TD_dirty(stats')
         /\ stats'[task_id].val.closed_at = ev.at
    [] OTHER -> task_ids' = id_for(task_ids, ev.id)

\* C5: the events that were in the channel when the select! branch ran are
\* taken one by one from the head of the channel and applied before the
\* iteration ends, so a publish builds its TaskUpdate from the state that
\* holds them all; while an iteration drains, no command is taken and the
\* temporality and the watcher list stay as they are.
C5_EventsBeforePublish ==
  [][/\ DrainStep =>
          /\ Applied(Head(events))
          /\ pending' = (IF pending > 0 THEN pending - 1 ELSE 0)
     /\ (pc = "drain" /\ pending > 0) =>
          /\ pc' # "select"
          /\ pending' = pending \/ DrainStep
     /\ PublishStep =>
          /\ pending = 0
          /\ last_update'.new_metadata = new_metadata
          /\ DOMAIN last_update'.stats_update = TD_dirty(stats)
          /\ \A id \in TD_dirty(stats) :
               last_update'.stats_update[id] = Stats_to_proto(stats[id].val)
          /\ last_update'.new_tasks =
               {Task_to_proto(id, tasks[id].val) : id \in TD_dirty(tasks)}
     /\ (pc = "drain" /\ ~GCStep) =>
          /\ rpcs' = rpcs \/ (rpcs' # <<>> /\ rpcs = SubSeq(rpcs', 1, Len(rpcs)))
          /\ temporality' = temporality
          /\ watchers' = watchers]_vars

\* a Live tick with a watcher has begun its drain with two events waiting
C5_Witness ==
  /\ pc = "drain"
  /\ source = "tick"
  /\ should_send
  /\ watchers # <<>>
  /\ pending = 2
  /\ Len(events) = 2

\* C6: the loop returns when the command channel yields None and when a
\* drain finds the event channel closed, and in no other way; with the
\* timer ticking, once either channel is closed the aggregator reaches the
\* terminated state, and from then on it neither publishes nor changes its
\* state nor sends to a sink.
C6_TerminatesOnClose ==
  /\ (rpcs_closed \/ events_closed) ~> (pc = "done")
  /\ [][/\ (pc # "done" /\ pc' = "done") =>
             \/ pc = "select" /\ rpcs = <<>> /\ rpcs_closed
             \/ pc = "drain" /\ events = <<>> /\ events_closed
        /\ pc = "done" =>
             /\ pc' = "done"
             /\ aggVars' = aggVars
             /\ last_update' = last_update
             /\ last_details' = last_details
             /\ sinks' = sinks]_vars

\* the event channel was closed with a watcher registered, and the drain of
\* a tick found it closed and returned
C6_Witness ==
  /\ pc = "done"
  /\ source = "tick"
  /\ events_closed
  /\ ~rpcs_closed
  /\ watchers # <<>>

\* the channel of sink `s` is open and has a free slot
HasRoom(s) == sinks[s].st = "open" /\ sinks[s].len < SinkCap

\* C7: in a publish, exactly the task watchers whose channel is open and
\* has a free slot take the update and stay in task_watchers, in their
\* order; every other watcher is removed in that same publish and its
\* sender dropped; the end of an iteration is never held up by a sink.
C7_WatcherEviction ==
  /\ [][PublishStep =>
          /\ \A s \in Range(watchers) :
               /\ s \in Range(watchers') <=> HasRoom(s)
               /\ HasRoom(s) =>
                    /\ s \in last_update'.accepted
                    /\ sinks'[s] = [sinks[s] EXCEPT !.len = @ + 1]
               /\ ~HasRoom(s) =>
                    /\ s \notin last_update'.accepted
                    /\ sinks'[s].len <= sinks[s].len
          /\ watchers' = SelectSeq(watchers, HasRoom)]_vars
  /\ [](\A s \in DOMAIN sinks : sinks[s].len <= SinkCap)
  /\ []((pc = "drain" /\ events = <<>> /\ ~events_closed)
          => ENABLED FinishIteration)

\* a Live tick is about to publish to two watchers, one whose channel is
\* full and one whose channel has room
C7_Witness ==
  /\ pc = "drain"
  /\ should_send
  /\ events = <<>>
  /\ Len(watchers) = 2
  /\ \E s \in Range(watchers) : sinks[s].st = "open" /\ sinks[s].len = SinkCap
  /\ \E s \in Range(watchers) : HasRoom(s)

\* C9: handling WatchTaskDetail{id} for an id without a stats entry
\* registers nothing and drops the return channel unanswered; for an id
\* with a stats entry the new subscription is appended under id exactly
\* when the receiver was handed back and the initial TaskDetails was taken,
\* and is dropped otherwise; the task watchers and the maps are untouched.
C9_DetailSubscription ==
  [][(SubscribeStep /\ Head(rpcs).type = "WatchTaskDetail") =>
       LET id == Head(rpcs).id
           before == IF id \in DOMAIN details_watchers
                     THEN details_watchers[id] ELSE <<>>
       IN /\ id \notin DOMAIN stats <=> detail_reply' = "dropped"
          /\ detail_reply' \in {"dropped", "send_failed", "update_failed",
                                "registered"}
          /\ detail_reply' # "registered" =>
               /\ details_watchers' = details_watchers
               /\ sinks' = sinks
          /\ detail_reply' = "registered" =>
               \E tx \in DetailSinkIds :
                 /\ sinks[tx].st = "free"
                 /\ sinks' = [sinks EXCEPT ![tx] = [st |-> "open", len |-> 1]]
                 /\ details_watchers' =
                      MapPut(details_watchers, id, Append(before, tx))
          /\ watchers' = watchers
          /\ tasks' = tasks
          /\ stats' = stats]_vars

\* a WatchTaskDetail for a task with stats has just been registered
C9_Witness ==
  /\ pc = "drain"
  /\ source = "cmd"
  /\ detail_reply = "registered"
  /\ \E id \in DOMAIN details_watchers :
       id \in DOMAIN stats /\ details_watchers[id] # <<>>

\* this step of the drain takes an event of this type from the channel
EventStep(type) == DrainStep /\ Head(events).type = type

\* the TaskId of the event at the head of the channel
HeadId == id_for_id(task_ids, Head(events).id)

\* the stats the event at the head of the channel is applied to, and the
\* stats it leaves
StatsBefore == TD_entry_or_default(stats, HeadId)

StatsAfter == stats'[HeadId].val

\* C11: an Exit that takes current_polls from 1 to 0 with last_poll_started
\* set appends the one sample at - last_poll_started, adds it to busy_time
\* and sets last_poll_ended; an Enter or Exit inside an open poll adds no
\* sample and leaves last_poll_started, polls and busy_time as they are.
C11_NestedPolls ==
  [][/\ (EventStep("Exit") /\ StatsBefore.current_polls = 1
           /\ StatsBefore.last_poll_started # None) =>
          LET elapsed == Head(events).at - StatsBefore.last_poll_started IN
          /\ pc' = "drain"
          /\ StatsAfter.current_polls = 0
          /\ StatsAfter.poll_times_histogram =
               Append(StatsBefore.poll_times_histogram, elapsed)
          /\ StatsAfter.busy_time = StatsBefore.busy_time + elapsed
          /\ StatsAfter.last_poll_ended = Head(events).at
     /\ ((EventStep("Exit") /\ StatsBefore.current_polls > 1)
           \/ (EventStep("Enter") /\ StatsBefore.current_polls > 0)) =>
          /\ StatsAfter.poll_times_histogram = StatsBefore.poll_times_histogram
          /\ StatsAfter.last_poll_started = StatsBefore.last_poll_started
          /\ StatsAfter.polls = StatsBefore.polls
          /\ StatsAfter.busy_time = StatsBefore.busy_time]_vars

\* C12: a Waker event on a task with stats changes only the counters of its
\* operation: Wake adds 1 to wakes and to waker_drops and sets last_wake,
\* WakeByRef adds 1 to wakes and sets last_wake, Clone adds 1 to
\* waker_clones, Drop adds 1 to waker_drops; every other field is as before.
C12_WakerAccounting ==
  [][(EventStep("Waker") /\ HeadId \in DOMAIN stats) =>
       LET op == Head(events).op
           b == stats[HeadId].val
           count(ops) == IF op \in ops THEN 1 ELSE 0
       IN /\ pc' = "drain"
          /\ StatsAfter.wakes = b.wakes + count({"Wake", "WakeByRef"})
          /\ StatsAfter.waker_drops = b.waker_drops + count({"Wake", "Drop"})
          /\ StatsAfter.waker_clones = b.waker_clones + count({"Clone"})
          /\ StatsAfter.last_wake = (IF op \in {"Wake", "WakeByRef"}
                                     THEN Head(events).at ELSE b.last_wake)
          /\ [StatsAfter EXCEPT !.wakes = b.wakes,
                                !.waker_drops = b.waker_drops,
                                !.waker_clones = b.waker_clones,
                                !.last_wake = b.last_wake] = b
          /\ tasks' = tasks
          /\ DOMAIN stats' = DOMAIN stats
          /\ \A id \in DOMAIN stats \ {HeadId} : stats'[id] = stats[id]]_vars

\* a task whose waker was cloned twice, woken by value once and dropped
\* once: two clones, two drops, one wake
C12_Witness ==
  \E id \in DOMAIN stats :
    /\ stats[id].val.waker_clones = 2
    /\ stats[id].val.waker_drops = 2
    /\ stats[id].val.wakes = 1
    /\ stats[id].val.last_wake # None
    /\ stats[id].val.created_at # None

\* C13: an Exit stamped earlier than last_poll_started that takes
\* current_polls to 0 does not end the aggregator: the drain goes on.
C13_SkewNotFatal ==
  [][(EventStep("Exit") /\ StatsBefore.current_polls = 1
        /\ StatsBefore.last_poll_started # None
        /\ Head(events).at < StatsBefore.last_poll_started) =>
       pc' = "drain"]_vars

\* C14: a Waker event for a span id without a stats entry changes neither
\* stats nor tasks nor the id allocator.
C14_UnknownWakerNoOp ==
  [][(EventStep("Waker") /\ HeadId \notin DOMAIN stats) =>
       /\ pc' = "drain"
       /\ stats' = stats
       /\ tasks' = tasks
       /\ task_ids' = task_ids]_vars

\* C20: every Enter adds one to current_polls and every Exit takes one off
\* without going below zero: an Exit at zero neither wraps nor panics.
C20_CurrentPollsNeverUnderflow ==
  [][/\ EventStep("Enter") =>
          StatsAfter.current_polls = StatsBefore.current_polls + 1
     /\ EventStep("Exit") =>
          /\ StatsAfter.current_polls >= 0
          /\ StatsAfter.current_polls <= StatsBefore.current_polls
          /\ StatsBefore.current_polls > 0 =>
               StatsAfter.current_polls = StatsBefore.current_polls - 1
          /\ StatsBefore.current_polls = 0 => pc' = "drain"]_vars

\* C17: a stats entry leaves the map only in the GC of an iteration, only
\* if its closed_at is set, and only if its retention has expired or, at
\* that GC, no task watcher is registered and the entry is not dirty.
C17_RemovableOnlyIf ==
  [][\A id \in DOMAIN stats :
       id \notin DOMAIN stats' =>
         /\ GCStep
         /\ stats[id].val.closed_at # None
         /\ \/ closed_for(stats[id].val, now) > retention
            \/ /\ watchers' = <<>>
               /\ ~stats[id].dirty \/ PublishStep]_vars

\* C18: between iterations every TaskId in tasks has an entry in stats, and
\* a GC pass that drops a stats entry leaves no tasks entry without stats.
C18_TasksHaveStats ==
  /\ [](pc = "select" => DOMAIN tasks \subseteq DOMAIN stats)
  /\ [][(GCStep /\ DOMAIN stats' # DOMAIN stats)
          => DOMAIN tasks' \subseteq DOMAIN stats']_vars

\* C19: after every GC pass task_ids holds as many span-id mappings as
\* there are entries in tasks.
C19_MappingsMatchTasks ==
  [][GCStep => Cardinality(DOMAIN task_ids'.id_mappings)
                 = Cardinality(DOMAIN tasks')]_vars

\* C15: advance_to_step(next) sends next only if next is the step right
\* after the caller's current step; for the current step, an earlier one or
\* one more than one ahead it panics and sends nothing; nothing else sends;
\* so no step is ever broadcast before the step preceding it.
C15_AdvanceOneStep ==
  /\ [][/\ (returned'.op = "advance_to_step" /\ returned' # returned) =>
              LET h == returned'.h
                  sent == returned'.result = "sent"
              IN /\ sent <=> returned'.arg = step'[h] + 1
                 /\ sent => /\ broadcast' = Append(broadcast, returned'.arg)
                            /\ handle'[h] = "live"
                 /\ ~sent => /\ broadcast' = broadcast
                             /\ handle'[h] = "panicked"
         /\ broadcast' # broadcast =>
              /\ returned'.op = "advance_to_step"
              /\ returned'.result = "sent"]_vars
  /\ [](\A i \in DOMAIN broadcast :
          \/ broadcast[i] = ServerStarted
          \/ \E j \in 1..(i - 1) : broadcast[j] = broadcast[i] - 1)

\* the last step has just been broadcast, after the three before it
C15_Witness ==
  /\ returned.op = "advance_to_step"
  /\ returned.result = "sent"
  /\ returned.arg = UpdatesRecorded
  /\ broadcast = <<ServerStarted, ClientConnected, TestFinished,
                   UpdatesRecorded>>

\* C16: try_wait_for_step(desired) returns true exactly when the caller's
\* step, brought up to date, is desired or a later step.
C16_TryWaitReached ==
  [][(returned'.op = "try_wait_for_step" /\ returned' # returned) =>
       returned'.result = (step'[returned'.h] >= returned'.arg)]_vars

\* C21: closed_at of a task, once set, is left as it is by every later
\* event for the same span id (a second Close, a Spawn, Enter, Exit, Waker).
C21_ClosedAtNeverChanges ==
  [][(DrainStep /\ Head(events).type # "Metadata"
        /\ HeadId \in DOMAIN stats /\ StatsBefore.closed_at # None) =>
       /\ HeadId \in DOMAIN stats'
       /\ StatsAfter.closed_at = StatsBefore.closed_at]_vars

\* C22: first_poll of a task, once set, is left as it is by every later
\* event for the same span id (Enter, Exit, Close, Waker, or a Spawn that
\* arrives after the first Enter).
C22_FirstPollNeverChanges ==
  [][(DrainStep /\ Head(events).type # "Metadata"
        /\ HeadId \in DOMAIN stats /\ StatsBefore.first_poll # None) =>
       /\ HeadId \in DOMAIN stats'
       /\ StatsAfter.first_poll = StatsBefore.first_poll]_vars

\* an event that names a span id, and so calls id_for, is taken off the
\* channel in this step
ObserveStep == DrainStep /\ Head(events).type # "Metadata"

\* C23 as stated: an observation of a span id without a TaskId takes
\* task_ids.next and advances it by one, and a span id keeps the TaskId it
\* was given through every later event and every retention GC pass.
C23_SameTaskIdForEver ==
  [][/\ (ObserveStep /\ ~Mapped(task_ids, Head(events).id)) =>
          /\ task_ids'.next = wrapping_add(task_ids.next)
          /\ task_ids'.id_mappings[Head(events).id] = task_ids.next
     /\ \A span \in DOMAIN task_ids.id_mappings :
          /\ span \in DOMAIN task_ids'.id_mappings
          /\ task_ids'.id_mappings[span] = task_ids.id_mappings[span]]_vars

\* C23: an observation of a span id that has no mapping (never seen, or
\* its mapping removed by a GC compaction) takes task_ids.next and advances
\* it by exactly one; an observation of a mapped span id returns the mapped
\* TaskId and changes nothing in the allocator; a GC pass only removes
\* mappings; no other step touches the allocator; and no two span ids share
\* a TaskId.
C23_AllocationWhileMapped ==
  /\ [][/\ ObserveStep =>
             LET span == Head(events).id IN
             IF Mapped(task_ids, span)
             THEN /\ task_ids' = task_ids
                  /\ HeadId = task_ids.id_mappings[span]
             ELSE /\ HeadId = task_ids.next
                  /\ task_ids'.next = wrapping_add(task_ids.next)
                  /\ task_ids'.id_mappings =
                       MapPut(task_ids.id_mappings, span, task_ids.next)
        /\ GCStep =>
             /\ task_ids'.next = task_ids.next
             /\ \A span \in DOMAIN task_ids'.id_mappings :
                  /\ span \in DOMAIN task_ids.id_mappings
                  /\ task_ids'.id_mappings[span] = task_ids.id_mappings[span]
        /\ (~ObserveStep /\ ~GCStep) => task_ids' = task_ids]_vars
  /\ [](\A s1, s2 \in DOMAIN task_ids.id_mappings :
          /\ task_ids.id_mappings[s1] < task_ids.next
          /\ task_ids.id_mappings[s1] = task_ids.id_mappings[s2] => s1 = s2)

\* span id 1 was given TaskId 0, lost the mapping in a GC pass and was
\* given TaskId 1 by the next event that named it
C23_Witness ==
  /\ task_ids.next = 2
  /\ task_ids.id_mappings = (1 :> 1)
  /\ 1 \in DOMAIN stats

\* C24 as stated: in every stats entry waker_drops never exceeds
\* waker_clones, whatever Waker events have arrived.
C24_DropsNeverExceedClones ==
  \A id \in DOMAIN stats :
    stats[id].val.waker_drops <= stats[id].val.waker_clones

\* C24: the aggregator counts waker operations as they arrive. A Spawn
\* starts both counters at 0; after a Waker event on a task with stats,
\* waker_drops <= waker_clones holds exactly if the event was a Wake or a
\* Drop and a clone was outstanding (drops < clones), a WakeByRef and the
\* relation held before, or a Clone and drops was at most clones + 1.
C24_DropsWithinClonesWhileOutstanding ==
  [][/\ (EventStep("Waker") /\ HeadId \in DOMAIN stats) =>
          LET op == Head(events).op
              b == stats[HeadId].val
          IN (StatsAfter.waker_drops <= StatsAfter.waker_clones) <=>
               CASE op \in {"Wake", "Drop"} -> b.waker_drops < b.waker_clones
                 [] op = "Clone" -> b.waker_drops <= b.waker_clones + 1
                 [] OTHER -> b.waker_drops <= b.waker_clones
     /\ EventStep("Spawn") =>
          /\ StatsAfter.waker_drops = 0
          /\ StatsAfter.waker_clones = 0]_vars

\* the task's first waker, which no Clone event announced, was woken by
\* value: one wake, one drop, no clone
C24_Witness ==
  \E id \in DOMAIN stats :
    /\ stats[id].val.waker_clones = 0
    /\ stats[id].val.waker_drops = 1
    /\ stats[id].val.wakes = 1

\* nothing is waiting for the next publish
Consumed ==
  /\ new_metadata = <<>>
  /\ TD_dirty(tasks) = {}
  /\ TD_dirty(stats) = {}

\* C25: a publish leaves new_metadata empty and no entry of tasks or stats
\* dirty; only applying an event makes anything dirty again; and a publish
\* that starts with nothing dirty carries no new_metadata, no new_tasks and
\* no stats_update.
C25_PublishConsumesDelta ==
  [][/\ PublishStep => Consumed'
     /\ (Consumed /\ ~DrainStep) => Consumed'
     /\ (PublishStep /\ Consumed) =>
          /\ last_update'.new_metadata = <<>>
          /\ last_update'.new_tasks = {}
          /\ last_update'.stats_update = EmptyMap]_vars

\* a publish has just gone out to a watcher with nothing in it, although
\* metadata and a task are known: an earlier publish had consumed them
C25_Witness ==
  /\ pc = "select"
  /\ last_update.kind = "publish"
  /\ last_update.accepted # {}
  /\ last_update.new_metadata = <<>>
  /\ last_update.new_tasks = {}
  /\ last_update.stats_update = EmptyMap
  /\ all_metadata # <<>>
  /\ DOMAIN tasks # {}
  /\ DOMAIN stats # {}

\* C26: an Enter, Exit or Close for a span id that has no TaskId allocates
\* one and leaves a stats record that is the default one with the event
\* applied (whatever an Exit makes of current_polls), created_at unset, and
\* no tasks entry, and the aggregator goes on; a later Spawn for that span id keeps the TaskId and puts a fresh
\* stats record in its place, with created_at the Spawn timestamp and polls
\* and current_polls 0.
C26_EventBeforeSpawn ==
  [][/\ (ObserveStep /\ Head(events).type \in {"Enter", "Exit", "Close"}
           /\ ~Mapped(task_ids, Head(events).id)) =>
          LET ev == Head(events) IN
          /\ pc' = "drain"
          /\ task_ids'.id_mappings[ev.id] = task_ids.next
          /\ task_ids'.next = wrapping_add(task_ids.next)
          /\ HeadId \notin DOMAIN tasks'
          /\ HeadId \in DOMAIN stats'
          /\ StatsAfter =
               CASE ev.type = "Enter" ->
                      [DefaultStats EXCEPT !.polls = 1, !.current_polls = 1,
                                           !.first_poll = ev.at,
                                           !.last_poll_started = ev.at]
                 [] ev.type = "Close" -> [DefaultStats EXCEPT !.closed_at = ev.at]
                 [] OTHER ->
                      [DefaultStats EXCEPT
                         !.current_polls = StatsAfter.current_polls]
          /\ StatsAfter.created_at = None
     /\ (EventStep("Spawn") /\ Mapped(task_ids, Head(events).id)
           /\ HeadId \in DOMAIN stats /\ HeadId \notin DOMAIN tasks) =>
          /\ task_ids' = task_ids
          /\ HeadId \in DOMAIN tasks'
          /\ StatsAfter = [DefaultStats EXCEPT !.polls = 0,
                                               !.created_at = Head(events).at]
          /\ StatsAfter.current_polls = 0]_vars

\* C27: a publish leaves in details_watchers only tasks that have stats,
\* each with a non-empty sink list; every sink left took the TaskDetails of
\* this publish; every sink that was registered and is not left either
\* belonged to a task without stats or refused the TaskDetails, and it has
\* been dropped.
C27_DetailsWatchersAfterPublish ==
  [][PublishStep =>
       /\ \A id \in DOMAIN details_watchers' :
            /\ id \in DOMAIN stats
            /\ id \in DOMAIN details_watchers
            /\ details_watchers'[id] # <<>>
            /\ \A s \in Range(details_watchers'[id]) :
                 /\ s \in Range(details_watchers[id])
                 /\ Watch_update(s)
                 /\ <<id, s>> \in last_details'
                 /\ sinks'[s] = [st |-> "open", len |-> sinks[s].len + 1]
       /\ \A id \in DOMAIN details_watchers :
            \A s \in Range(details_watchers[id]) :
              \/ /\ id \in DOMAIN details_watchers'
                 /\ s \in Range(details_watchers'[id])
              \/ /\ id \notin DOMAIN stats \/ ~Watch_update(s)
                 /\ <<id, s>> \notin last_details'
                 /\ sinks'[s].st = "free"]_vars

\* a publish has just sent the TaskDetails of a task to its detail sink,
\* which stays registered
C27_Witness ==
  /\ pc = "select"
  /\ last_update.kind = "publish"
  /\ \E id \in DOMAIN details_watchers :
       \E s \in Range(details_watchers[id]) :
         /\ <<id, s>> \in last_details
         /\ sinks[s].st = "open"
         /\ sinks[s].len > 0

\* C28: in the drain the aggregator can always take a step of its own: it
\* applies an event that is ready, ends if the channel is closed and empty,
\* and with the channel momentarily empty goes on to publish and GC, which
\* is the only way from the drain back to the select; outside the drain no
\* event is taken, and at the select with no flush notification and no
\* command only the tick moves the aggregator, whatever the event channel
\* holds.
C28_DrainNeverSuspends ==
  /\ [](pc = "drain" =>
          /\ ENABLED (DrainEvent \/ DrainClosed \/ FinishIteration)
          /\ (events = <<>> /\ ~events_closed) => ENABLED FinishIteration
          /\ events # <<>> => ENABLED DrainEvent)
  /\ [](pc # "drain" => ~ENABLED (DrainEvent \/ DrainClosed \/ FinishIteration))
  /\ []((pc = "select" /\ ~should_flush /\ rpcs = <<>> /\ ~rpcs_closed) =>
          ~ENABLED (FlushNotified \/ RecvCommand \/ RecvNone))
  /\ [][(pc = "drain" /\ pc' = "select") =>
          /\ events = <<>>
          /\ pending = 0
          /\ source' = "none"]_vars

\* a flush iteration has drained the channel, which is empty for the
\* moment with its senders alive: the drain is about to go on to the GC
C28_Witness ==
  /\ pc = "drain"
  /\ source = "flush"
  /\ events = <<>>
  /\ ~events_closed
  /\ pending = 0
  /\ TD_dirty(stats) # {}

\* C29: every TaskId that has a stats entry is the TaskId some span id is
\* mapped to in task_ids.id_mappings, after any events and GC passes, so a
\* later event for that span id finds the same stats entry.
C29_StatsNeverOrphaned ==
  \A id \in DOMAIN stats :
    \E span \in DOMAIN task_ids.id_mappings : task_ids.id_mappings[span] = id

\* C30: while triggered is true the notification of the call that won the
\* compare_exchange is on its way (the call has yet to notify, the permit is
\* stored, or the flush branch is about to store false), and under a fair
\* select triggered always goes back to false, so a later call wins again.
C30_NoLostFlush ==
  /\ [](triggered => (notifying \/ should_flush \/ pc = "store"))
  /\ [][(~triggered /\ triggered') => notifying']_vars
  /\ triggered ~> ~triggered

\* two calls of one tick window won the compare_exchange and each got its
\* flush pass: the second has just stored false
C30_Witness ==
  /\ wins = 2
  /\ flushes = 2
  /\ ~triggered
  /\ ~should_flush
  /\ pc = "drain"
  /\ source = "flush"

\* C31: an iteration that reaches the publish guard with no task watcher
\* does not publish, whatever its source: nothing is sent to any sink, the
\* detail watchers stay as they are with their closed or full sinks,
\* new_metadata is kept, and every entry of tasks and stats that the GC
\* leaves keeps its value and its dirty flag.
C31_NoPublishWithoutWatchers ==
  [][(GCStep /\ watchers = <<>>) =>
       /\ last_update' = last_update
       /\ last_update.kind # "publish"
       /\ last_details' = last_details
       /\ sinks' = sinks
       /\ watchers' = <<>>
       /\ details_watchers' = details_watchers
       /\ new_metadata' = new_metadata
       /\ \A id \in DOMAIN tasks' : tasks'[id] = tasks[id]
       /\ \A id \in DOMAIN stats' : stats'[id] = stats[id]]_vars

\* a Live tick has drained the channel and stands at the publish guard with
\* no task watcher: metadata and a dirty stats entry are waiting, and a
\* detail watcher whose sink is closed is registered
C31_Witness ==
  /\ pc = "drain"
  /\ source = "tick"
  /\ should_send
  /\ events = <<>>
  /\ watchers = <<>>
  /\ new_metadata # <<>>
  /\ TD_dirty(stats) # {}
  /\ \E id \in DOMAIN details_watchers :
       \E s \in Range(details_watchers[id]) : sinks[s].st = "closed"
====
